---- MODULE Spec2Model ----
(***************************************************************************)
(* Model of copybara/integration/cram.py: the bootstrap shim that puts     *)
(* the real cram library on sys.path, stages the test files named on the   *)
(* command line into a fresh directory under $TEST_TMPDIR, rewrites the    *)
(* argument list to the staged copies and delegates to cram.main.          *)
(*                                                                         *)
(* A string is modelled by its os.path.split pair <<dirname, basename>>;   *)
(* directories are numbers (0 is the empty dirname), so that string        *)
(* equality (x == p), os.path.basename and os.path.join are computed as    *)
(* the code computes them.                                                 *)
(***************************************************************************)
EXTENDS Integers, Sequences, FiniteSets, TLC

\* ---- bounds ----
MaxArgs == 3
NProcs == 2
MaxStatus == 2

Procs == 1..NProcs

\* ---- the file system and the strings of the command line ----
NoDir == 0
ScriptDir == 1
SrcA == 2
SrcB == 3
LibDir == 4
TmpBase == 10
TmpDirs == {TmpBase + i : i \in 1..(NProcs + 1)}

ExitWidth == 256

ProgName == <<ScriptDir, "cram.py">>
Verbose == <<NoDir, "--verbose">>
Shell == <<NoDir, "--shell">>
Ax == <<SrcA, "x.t">>
Bx == <<SrcB, "x.t">>
Ay == <<SrcA, "y.t">>
Az == <<SrcA, "z.t">>
Tx == <<TmpBase + 1, "x.t">>

Flags == {Verbose}
ValueOpts == {Shell}
Tokens == {Verbose, Shell, Ax, Bx, Ay, Az, Tx}

\* Files present before any invocation starts (Az and Tx do not exist).
FS0 == (Ax :> "ax") @@ (Bx :> "bx") @@ (Ay :> "ay")

Range(s) == {s[i] : i \in 1..Len(s)}

SeqsUpTo(S, n) == UNION {[1..m -> S] : m \in 0..n}

\* ---- pure functions of the shim ----
basename(p) == p[2]

join(d, b) == <<d, b>>

\* optparse's classification of each argument: a flag, an option taking a
\* value, the value it consumes, or a positional (a test-file path).
RECURSIVE Kinds(_)
Kinds(a) ==
  IF a = <<>> THEN <<>>
  ELSE IF Head(a) \in Flags THEN <<"flag">> \o Kinds(Tail(a))
  ELSE IF Head(a) \in ValueOpts
    THEN IF Len(a) >= 2
           THEN <<"opt", "value">> \o Kinds(Tail(Tail(a)))
           ELSE <<"opt">>
  ELSE <<"path">> \o Kinds(Tail(a))

WellFormed(a) == \A i \in 1..Len(a) : Kinds(a)[i] = "opt" => i < Len(a)

RECURSIVE Positionals(_, _)
Positionals(a, kinds) ==
  IF a = <<>> THEN <<>>
  ELSE IF Head(kinds) = "path"
    THEN <<Head(a)>> \o Positionals(Tail(a), Tail(kinds))
    ELSE Positionals(Tail(a), Tail(kinds))

parseopts(a) == Positionals(a, Kinds(a))

Slice(argv0) == Tail(argv0)

SubstituteFirst(a, p, d) ==
  [i \in 1..Len(a) |->
     IF a[i] = p /\ (\A j \in 1..(i - 1) : a[j] # p) THEN d ELSE a[i]]
SubstituteEverywhere(a, p, d) == [i \in 1..Len(a) |-> d]
Substitute(a, p, d) == [i \in 1..Len(a) |-> IF a[i] = p THEN d ELSE a[i]]

CopyFails(fs, src, dst) == src \notin DOMAIN fs \/ src = dst

copyfile(fs, src, dst) ==
  [q \in DOMAIN fs \cup {dst} |-> IF q = dst THEN fs[src] ELSE fs[q]]

sys_exit_bool(s) == IF s = 0 THEN 0 ELSE 1
sys_exit(s) == s % ExitWidth

Statuses == 0..MaxStatus

Argvs == {<<ProgName>> \o a : a \in {b \in SeqsUpTo(Tokens, MaxArgs) : WellFormed(b)}}
ConcArgvs == {<<ProgName, Ax>>, <<ProgName, Ax, Ay>>, <<ProgName, Az>>}

VARIABLES live, environ, files, dirs, pc, argv, mainBound, sysPath, args,
          paths, td, k, p, dest, copies, received, calls, ret, status, err,
          ioFailedAt

vars == <<live, environ, files, dirs, pc, argv, mainBound, sysPath, args,
          paths, td, k, p, dest, copies, received, calls, ret, status, err,
          ioFailedAt>>

InitCommon ==
  /\ files = FS0
  /\ dirs = {}
  /\ pc = [q \in Procs |-> IF q \in live THEN "del_main" ELSE "off"]
  /\ mainBound = [q \in Procs |-> TRUE]
  /\ sysPath = [q \in Procs |-> <<ScriptDir>>]
  /\ args = argv
  /\ paths = [q \in Procs |-> <<>>]
  /\ td = [q \in Procs |-> NoDir]
  /\ k = [q \in Procs |-> 0]
  /\ p = [q \in Procs |-> ProgName]
  /\ dest = [q \in Procs |-> ProgName]
  /\ copies = [q \in Procs |-> <<>>]
  /\ received = [q \in Procs |-> <<>>]
  /\ calls = [q \in Procs |-> 0]
  /\ ret = [q \in Procs |-> 0]
  /\ status = [q \in Procs |-> 0]
  /\ err = [q \in Procs |-> ""]
  /\ ioFailedAt = [q \in Procs |-> 0]

\* One invocation, any well-formed command line.
Init ==
  /\ live = {1}
  /\ \E a \in Argvs : argv = [q \in Procs |-> IF q \in live THEN a ELSE <<ProgName>>]
  /\ \E e \in BOOLEAN : environ = [q \in Procs |-> IF q \in live THEN e ELSE TRUE]
  /\ InitCommon

\* Every invocation runs, all under the same temp root.
InitConc ==
  /\ live = Procs
  /\ argv \in [Procs -> ConcArgvs]
  /\ environ \in [Procs -> BOOLEAN]
  /\ InitCommon

\* ---- helpers over the state ----
EnvLookupDefaults(self) == FALSE
EnvLookupFails(self) == ~environ[self]

AnyName == TmpDirs
FreshNames == TmpDirs \ dirs

MorePathsFirstOnly(self) == k[self] < 1 /\ k[self] < Len(paths[self])
MorePaths(self) == k[self] < Len(paths[self])

DelegateSysArgv(self) == argv[self]
DelegatedArgs(self) == args[self]

ContinueAfterCopyError == "for_p"
AfterCopyError == "failed"

Goto(self, l) == pc' = [pc EXCEPT ![self] = l]

\* ---- the steps of main ----
\* line 29-30: global main; del main
DelMain(self) ==
  /\ pc[self] = "del_main"
  /\ mainBound' = [mainBound EXCEPT ![self] = FALSE]
  /\ Goto(self, "import_external")
  /\ UNCHANGED <<live, environ, files, dirs, argv, sysPath, args, paths, td,
                 k, p, dest, copies, received, calls, ret, status, err,
                 ioFailedAt>>

\* line 32-34: import external cram, insert its directory first in sys.path
InsertPath(self) ==
  /\ pc[self] = "import_external"
  /\ sysPath' = [sysPath EXCEPT ![self] = <<LibDir>> \o @]
  /\ Goto(self, "slice")
  /\ UNCHANGED <<live, environ, files, dirs, argv, mainBound, args, paths,
                 td, k, p, dest, copies, received, calls, ret, status, err,
                 ioFailedAt>>

\* line 35-36: from cram import _main; args = args[1:]
SliceArgs(self) ==
  /\ pc[self] = "slice"
  /\ args' = [args EXCEPT ![self] = Slice(@)]
  /\ Goto(self, "parseopts")
  /\ UNCHANGED <<live, environ, files, dirs, argv, mainBound, sysPath, paths,
                 td, k, p, dest, copies, received, calls, ret, status, err,
                 ioFailedAt>>

\* line 37: unused_opts, paths, unused_getusage = _main._parseopts(args)
ParseOpts(self) ==
  /\ pc[self] = "parseopts"
  /\ paths' = [paths EXCEPT ![self] = parseopts(args[self])]
  /\ Goto(self, "mkdtemp")
  /\ UNCHANGED <<live, environ, files, dirs, argv, mainBound, sysPath, args,
                 td, k, p, dest, copies, received, calls, ret, status, err,
                 ioFailedAt>>

\* line 38: os.environ['TEST_TMPDIR'] raises KeyError
MkdtempKeyError(self) ==
  /\ pc[self] = "mkdtemp"
  /\ EnvLookupFails(self)
  /\ err' = [err EXCEPT ![self] = "KeyError"]
  /\ Goto(self, "failed")
  /\ UNCHANGED <<live, environ, files, dirs, argv, mainBound, sysPath, args,
                 paths, td, k, p, dest, copies, received, calls, ret, status,
                 ioFailedAt>>

\* line 38: td = tempfile.mkdtemp(dir=...), a directory that did not exist
Mkdtemp(self) ==
  /\ pc[self] = "mkdtemp"
  /\ ~EnvLookupFails(self)
  /\ \E n \in FreshNames :
       /\ td' = [td EXCEPT ![self] = n]
       /\ dirs' = dirs \cup {n}
  /\ Goto(self, "for_p")
  /\ UNCHANGED <<live, environ, files, argv, mainBound, sysPath, args, paths,
                 k, p, dest, copies, received, calls, ret, status, err,
                 ioFailedAt>>

\* line 39: for p in paths (next element, or fall out of the loop)
ForP(self) ==
  /\ pc[self] = "for_p"
  /\ IF MorePaths(self)
       THEN /\ k' = [k EXCEPT ![self] = @ + 1]
            /\ p' = [p EXCEPT ![self] = paths[self][k[self] + 1]]
            /\ Goto(self, "join")
       ELSE /\ UNCHANGED <<k, p>>
            /\ Goto(self, "cram_main")
  /\ UNCHANGED <<live, environ, files, dirs, argv, mainBound, sysPath, args,
                 paths, td, dest, copies, received, calls, ret, status, err,
                 ioFailedAt>>

\* line 40: dest = os.path.join(td, os.path.basename(p))
Join(self) ==
  /\ pc[self] = "join"
  /\ dest' = [dest EXCEPT ![self] = join(td[self], basename(p[self]))]
  /\ Goto(self, "copyfile")
  /\ UNCHANGED <<live, environ, files, dirs, argv, mainBound, sysPath, args,
                 paths, td, k, p, copies, received, calls, ret, status, err,
                 ioFailedAt>>

\* line 41: shutil.copyfile(p, dest) succeeds
Copyfile(self) ==
  /\ pc[self] = "copyfile"
  /\ ~CopyFails(files, p[self], dest[self])
  /\ files' = copyfile(files, p[self], dest[self])
  /\ copies' = [copies EXCEPT ![self] = Append(@, <<p[self], dest[self]>>)]
  /\ Goto(self, "enumerate")
  /\ UNCHANGED <<live, environ, dirs, argv, mainBound, sysPath, args, paths,
                 td, k, p, dest, received, calls, ret, status, err,
                 ioFailedAt>>

\* line 41: shutil.copyfile raises before anything is written: the source
\* is missing or is the destination itself (CopyFails), or the operating
\* system refuses to open the source or the destination, which can happen
\* to any copy.
CopyfileError(self) ==
  /\ pc[self] = "copyfile"
  /\ err' = [err EXCEPT ![self] = "IOError"]
  /\ ioFailedAt' = [ioFailedAt EXCEPT ![self] = k[self]]
  /\ Goto(self, AfterCopyError)
  /\ UNCHANGED <<live, environ, files, dirs, argv, mainBound, sysPath, args,
                 paths, td, k, p, dest, copies, received, calls, ret, status>>

\* line 42-44: for i, x in enumerate(args): if x == p: args[i] = dest
Enumerate(self) ==
  /\ pc[self] = "enumerate"
  /\ args' = [args EXCEPT ![self] = Substitute(@, p[self], dest[self])]
  /\ Goto(self, "for_p")
  /\ UNCHANGED <<live, environ, files, dirs, argv, mainBound, sysPath, paths,
                 td, k, p, dest, copies, received, calls, ret, status, err,
                 ioFailedAt>>

\* line 46-47: import cram; cram.main(args) returns some status
CramMain(self) ==
  /\ pc[self] = "cram_main"
  /\ \E s \in Statuses : ret' = [ret EXCEPT ![self] = s]
  /\ received' = [received EXCEPT ![self] = DelegatedArgs(self)]
  /\ calls' = [calls EXCEPT ![self] = @ + 1]
  /\ Goto(self, "sys_exit")
  /\ UNCHANGED <<live, environ, files, dirs, argv, mainBound, sysPath, args,
                 paths, td, k, p, dest, copies, status, err, ioFailedAt>>

\* line 47: sys.exit(...)
SysExit(self) ==
  /\ pc[self] = "sys_exit"
  /\ status' = [status EXCEPT ![self] = sys_exit(ret[self])]
  /\ Goto(self, "exited")
  /\ UNCHANGED <<live, environ, files, dirs, argv, mainBound, sysPath, args,
                 paths, td, k, p, dest, copies, received, calls, ret, err,
                 ioFailedAt>>

Next ==
  \/ \E self \in live : DelMain(self)
  \/ \E self \in live : InsertPath(self)
  \/ \E self \in live : SliceArgs(self)
  \/ \E self \in live : ParseOpts(self)
  \/ \E self \in live : MkdtempKeyError(self)
  \/ \E self \in live : Mkdtemp(self)
  \/ \E self \in live : ForP(self)
  \/ \E self \in live : Join(self)
  \/ \E self \in live : Copyfile(self)
  \/ \E self \in live : CopyfileError(self)
  \/ \E self \in live : Enumerate(self)
  \/ \E self \in live : CramMain(self)
  \/ \E self \in live : SysExit(self)

Spec == Init /\ [][Next]_vars

SpecConc == InitConc /\ [][Next]_vars

\* ---- what the claims speak about ----
Orig(self) == Tail(argv[self])

TestPaths(self) == parseopts(Orig(self))

PathPositions(self) ==
  {i \in 1..Len(Orig(self)) : Kinds(Orig(self))[i] = "path"}

Delegated(self) == calls[self] > 0

Staged(self, q) == join(td[self], basename(q))

Written(self) == {copies[self][i][2] : i \in 1..Len(copies[self])}

\* C1: once main has reached the delegation step and the process has
\* terminated, its exit status is exactly the status cram.main returned.
C1_ExitStatus ==
  \A self \in Procs : pc[self] = "exited" => status[self] = ret[self]

C1_Witness ==
  \E self \in Procs :
    pc[self] = "exited" /\ ret[self] = MaxStatus /\ status[self] = MaxStatus

\* C2: every position of argv[1:] that holds a test-file path p holds, in
\* the list handed to cram.main, the staged path join(td, basename(p)).
C2_AllOccurrencesReplaced ==
  \A self \in Procs : Delegated(self) =>
    \A i \in 1..Len(Orig(self)) :
      Orig(self)[i] \in Range(TestPaths(self)) =>
        /\ i \in DOMAIN received[self]
        /\ received[self][i] = Staged(self, Orig(self)[i])

C2_Witness ==
  \E self \in Procs : \E i, j \in 1..Len(Orig(self)) :
    /\ Delegated(self)
    /\ i < j
    /\ Orig(self)[i] = Orig(self)[j]
    /\ Orig(self)[i] \in Range(TestPaths(self))
    /\ received[self][i] = Staged(self, Orig(self)[i])
    /\ received[self][j] = received[self][i]

\* C3 (as claimed): the list handed to cram.main has the length of argv[1:]
\* and every flag, option and option value is forwarded verbatim, also an
\* option value whose string equals a test-file path.
C3_OnlyPositionalsChange ==
  \A self \in Procs : Delegated(self) =>
    /\ Len(received[self]) = Len(Orig(self))
    /\ \A i \in 1..Len(Orig(self)) :
         i \notin PathPositions(self) => received[self][i] = Orig(self)[i]

\* C3 (amended): the list handed to cram.main has the length of argv[1:]
\* and every argument whose string equals no test-file path is forwarded
\* verbatim at its original index.
C3_OnlyPathStringsChange ==
  \A self \in Procs : Delegated(self) =>
    /\ Len(received[self]) = Len(Orig(self))
    /\ \A i \in 1..Len(Orig(self)) :
         Orig(self)[i] \notin Range(TestPaths(self)) =>
           received[self][i] = Orig(self)[i]

C3_Witness ==
  \E self \in Procs : \E i, j \in 1..Len(Orig(self)) :
    /\ Delegated(self)
    /\ Kinds(Orig(self))[i] = "value"
    /\ received[self][i] = Orig(self)[i]
    /\ j \in PathPositions(self)
    /\ received[self][j] # Orig(self)[j]

\* C4: when cram.main has been invoked, the file at the staged path that
\* replaced each test-file path has the content of the original file.
C4_RoundTrip ==
  \A self \in Procs : Delegated(self) =>
    \A i \in PathPositions(self) :
      /\ i \in DOMAIN received[self]
      /\ received[self][i] \in DOMAIN files
      /\ Orig(self)[i] \in DOMAIN FS0 =>
           files[received[self][i]] = FS0[Orig(self)[i]]

\* C5: with TEST_TMPDIR absent no staging directory is created, no file is
\* copied, cram.main is never invoked, and the failure of main is the
\* KeyError of the environment lookup, also with zero test-file paths.
C5_NoTmpRoot ==
  \A self \in Procs : ~environ[self] =>
    /\ td[self] = NoDir
    /\ copies[self] = <<>>
    /\ calls[self] = 0
    /\ pc[self] \notin {"for_p", "join", "copyfile", "enumerate",
                        "cram_main", "sys_exit", "exited"}
    /\ pc[self] = "failed" => err[self] = "KeyError"

C5_Witness ==
  \E self \in Procs :
    /\ ~environ[self]
    /\ pc[self] = "failed"
    /\ err[self] = "KeyError"
    /\ TestPaths(self) = <<>>
    /\ dirs = {}

\* C6: concurrently running invocations under one temp root have pairwise
\* distinct staging directories and never write the same staged path.
C6_DistinctStagingDirs ==
  \A a, b \in Procs : a # b =>
    /\ td[a] # NoDir /\ td[b] # NoDir => td[a] # td[b]
    /\ Written(a) \cap Written(b) = {}

C6_Witness ==
  \E a, b \in Procs :
    /\ a # b
    /\ \E i \in 1..Len(copies[a]) : \E j \in 1..Len(copies[b]) :
         /\ copies[a][i][1] = copies[b][j][1]
         /\ copies[a][i][2] # copies[b][j][2]

\* C7: with zero test-file paths the list handed to cram.main equals
\* argv[1:], no file is copied, and the library-resolution steps have run.
C7_Identity ==
  \A self \in Procs : TestPaths(self) = <<>> =>
    /\ copies[self] = <<>>
    /\ files = FS0 \/ live # {self}
    /\ Delegated(self) =>
         /\ received[self] = Orig(self)
         /\ ~mainBound[self]
         /\ Head(sysPath[self]) = LibDir

C7_Witness ==
  \E self \in Procs :
    /\ TestPaths(self) = <<>>
    /\ Len(Orig(self)) >= 2
    /\ Delegated(self)
    /\ received[self] = Orig(self)

\* C8: the steps run in the fixed order resolve-library, stage-inputs,
\* delegate, exit: cram.main is invoked at most once, only with the library
\* directory first in sys.path and with every test-file path copied and
\* substituted, and after it returns only the process exit happens.
Pipeline ==
  { <<"del_main", "import_external">>, <<"import_external", "slice">>,
    <<"slice", "parseopts">>, <<"parseopts", "mkdtemp">>,
    <<"mkdtemp", "for_p">>, <<"mkdtemp", "failed">>,
    <<"for_p", "join">>, <<"join", "copyfile">>,
    <<"copyfile", "enumerate">>, <<"copyfile", "failed">>,
    <<"enumerate", "for_p">>, <<"for_p", "cram_main">>,
    <<"cram_main", "sys_exit">>, <<"sys_exit", "exited">> }

StagingComplete(self) ==
  /\ Len(copies[self]) = Len(paths[self])
  /\ \A i \in 1..Len(paths[self]) :
       /\ copies[self][i] = <<paths[self][i], Staged(self, paths[self][i])>>
       /\ paths[self][i] \notin Range(args[self])

C8_LinearPipeline ==
  [][\A self \in Procs :
       /\ pc'[self] # pc[self] => <<pc[self], pc'[self]>> \in Pipeline
       /\ calls'[self] <= 1
       /\ calls'[self] # calls[self] =>
            /\ paths[self] = TestPaths(self)
            /\ ~mainBound[self]
            /\ Head(sysPath[self]) = LibDir
            /\ StagingComplete(self)
       /\ Delegated(self) =>
            /\ pc'[self] \in {"sys_exit", "exited"}
            /\ <<files, dirs, args[self], copies[self], sysPath[self],
                 received[self], ret[self]>>' =
               <<files, dirs, args[self], copies[self], sysPath[self],
                 received[self], ret[self]>> \/ live # {self}]_vars

C8_Witness ==
  \E self \in Procs :
    /\ pc[self] = "exited"
    /\ calls[self] = 1
    /\ Len(copies[self]) >= 2
    /\ copies[self][1][1] # copies[self][2][1]

\* C9: a failing copy of the k-th test-file path is fatal: it is not
\* retried, no later path is copied, cram.main is never invoked, and the
\* staging directory and the files staged for paths 1..k-1 stay in place.
C9_CopyFailureIsFatal ==
  \A self \in Procs : ioFailedAt[self] # 0 =>
    /\ pc[self] = "failed"
    /\ err[self] = "IOError"
    /\ calls[self] = 0
    /\ k[self] = ioFailedAt[self]
    /\ Len(copies[self]) = ioFailedAt[self] - 1
    /\ td[self] \in dirs
    /\ \A j \in 1..(ioFailedAt[self] - 1) :
         /\ copies[self][j] = <<paths[self][j], Staged(self, paths[self][j])>>
         /\ Staged(self, paths[self][j]) \in DOMAIN files

C9_Witness ==
  \E self \in Procs :
    /\ ioFailedAt[self] = 2
    /\ pc[self] = "failed"
    /\ Len(copies[self]) = 1
    /\ copies[self][1][2] \in DOMAIN files

\* C10: distinct test-file paths are rewritten to distinct staged paths and
\* each staged file is written from exactly one source path.
C10_StagingInjective ==
  \A self \in Procs : Delegated(self) =>
    /\ \A i, j \in PathPositions(self) :
         Orig(self)[i] # Orig(self)[j] => received[self][i] # received[self][j]
    /\ \A i, j \in 1..Len(copies[self]) :
         copies[self][i][2] = copies[self][j][2] =>
           copies[self][i][1] = copies[self][j][1]
====
